---- MODULE Spec2Model ----
(***************************************************************************)
(* check_mrtgtraf: one run of the plugin, from the command line to the     *)
(* exit status.  C strings (command-line tokens, lines of the log file)    *)
(* are sequences of one-character strings; the text the run prints is a    *)
(* TLA+ string.                                                            *)
(***************************************************************************)
EXTENDS Integers, Sequences, FiniteSets, TLC

(* ---------------------------------------------------------------------- *)
(* Program constants                                                       *)
(* ---------------------------------------------------------------------- *)
STATE_OK == 0
STATE_WARNING == 1
STATE_CRITICAL == 2
STATE_UNKNOWN == 3

(* the null pointer: no token is a one-element sequence holding this *)
NULL == <<"(null)">>

(* ---------------------------------------------------------------------- *)
(* The C integer types.  A number too wide for the checker's integers is   *)
(* written as the sequence of its decimal digits, most significant first,  *)
(* without leading zeros: an unsigned long is such a sequence below 2^64,  *)
(* a long (time_t) is a sign and such a sequence, an int is an integer     *)
(* ---------------------------------------------------------------------- *)
RECURSIVE StripZeros(_)
StripZeros(d) == IF Len(d) > 1 /\ d[1] = 0 THEN StripZeros(Tail(d)) ELSE d

(* the digits of the integer n >= 0 *)
RECURSIVE NumOf(_)
NumOf(n) == IF n < 10 THEN <<n>> ELSE Append(NumOf(n \div 10), n % 10)

Zero == <<0>>

RECURSIVE NumLexLess(_, _, _)
NumLexLess(a, b, i) ==
  IF i > Len(a) THEN FALSE
  ELSE IF a[i] # b[i] THEN a[i] < b[i]
  ELSE NumLexLess(a, b, i + 1)

(* a < b *)
NumLess(a, b) == Len(a) < Len(b) \/ (Len(a) = Len(b) /\ NumLexLess(a, b, 1))

(* a * k + c for integers 0 <= k, c *)
RECURSIVE NumMulAddFrom(_, _, _, _, _)
NumMulAddFrom(a, k, i, carry, acc) ==
  IF i = 0 THEN StripZeros(NumOf(carry) \o acc)
  ELSE NumMulAddFrom(a, k, i - 1, (a[i] * k + carry) \div 10,
                     <<(a[i] * k + carry) % 10>> \o acc)

NumMulAdd(a, k, c) == NumMulAddFrom(a, k, Len(a), c, <<>>)

(* quotient and remainder of a by the integer k > 0 *)
RECURSIVE NumDivModFrom(_, _, _, _, _)
NumDivModFrom(a, k, i, q, r) ==
  IF i > Len(a) THEN [q |-> StripZeros(q), r |-> r]
  ELSE NumDivModFrom(a, k, i + 1, Append(q, (r * 10 + a[i]) \div k), (r * 10 + a[i]) % k)

NumDivMod(a, k) == NumDivModFrom(a, k, 1, <<>>, 0)

(* a - b for a >= b *)
RECURSIVE NumSubFrom(_, _, _, _, _)
NumSubFrom(a, b, i, borrow, acc) ==
  IF i = 0 THEN StripZeros(acc)
  ELSE LET j == i - (Len(a) - Len(b))
           cur == a[i] - (IF j >= 1 THEN b[j] ELSE 0) - borrow
       IN  IF cur < 0
           THEN NumSubFrom(a, b, i - 1, 1, <<cur + 10>> \o acc)
           ELSE NumSubFrom(a, b, i - 1, 0, <<cur>> \o acc)

NumSub(a, b) == NumSubFrom(a, b, Len(a), 0, <<>>)

(* 2^n *)
RECURSIVE TwoTo(_)
TwoTo(n) == IF n <= 24 THEN NumOf(2 ^ n) ELSE NumMulAdd(TwoTo(n - 24), 2 ^ 24, 0)

ULONG_MAX == NumSub(TwoTo(64), <<1>>)

LONG_MAX == NumSub(TwoTo(63), <<1>>)

INT_MAX == (2 ^ 30 - 1) + 2 ^ 30

INT_MIN == (0 - 2 ^ 30) - 2 ^ 30

(* the unsigned long that -v is: 2^64 - v, and 0 for 0 *)
Negate(v) == IF v = Zero THEN Zero ELSE NumSub(TwoTo(64), v)

(* a long of sign and magnitude; zero has no sign *)
Long(neg, mag) == [neg |-> neg /\ mag # Zero, mag |-> mag]

(* the conversion of an unsigned long to long: values above LONG_MAX wrap  *)
ToLong(v) ==
  IF NumLess(LONG_MAX, v) THEN Long(TRUE, NumSub(TwoTo(64), v)) ELSE Long(FALSE, v)

(* a < b for longs *)
LongLess(a, b) ==
  IF a.neg /\ ~b.neg THEN TRUE
  ELSE IF ~a.neg /\ b.neg THEN FALSE
  ELSE IF a.neg THEN NumLess(b.mag, a.mag)
  ELSE NumLess(a.mag, b.mag)

(* the long an int is *)
IntToLong(n) ==
  IF n < 0 THEN Long(TRUE, NumMulAdd(NumOf(0 - (n + 1)), 1, 1)) ELSE Long(FALSE, NumOf(n))

(* the conversion of a long to int: the low 32 bits, as two halves of 16   *)
(* bits, read as a two's complement number                                 *)
LongToInt(l) ==
  LET d1 == NumDivMod(l.mag, 65536)
      lo == d1.r
      hi == NumDivMod(d1.q, 65536).r
      nlo == IF l.neg THEN (65536 - lo) % 65536 ELSE lo
      nhi == IF l.neg THEN (IF lo = 0 THEN (65536 - hi) % 65536 ELSE 65535 - hi) ELSE hi
  IN  IF nhi >= 32768 THEN (nhi - 65536) * 65536 + nlo ELSE nhi * 65536 + nlo

(* the long lies in the range of int *)
InIntRange(l) ==
  IF l.neg THEN ~NumLess(TwoTo(31), l.mag) ELSE ~NumLess(NumOf(INT_MAX), l.mag)

(* ---------------------------------------------------------------------- *)
(* libc conversions, computed as libc computes them                        *)
(* ---------------------------------------------------------------------- *)
IsDigit(ch) == ch \in {"0", "1", "2", "3", "4", "5", "6", "7", "8", "9"}

(* the vertical tab, character 11 *)
VT == ""

(* isspace *)
IsSpace(ch) == ch \in {" ", "\n", "\t", "\r", "\f", VT}

DigitVal(ch) ==
  CASE ch = "0" -> 0 [] ch = "1" -> 1 [] ch = "2" -> 2 [] ch = "3" -> 3
    [] ch = "4" -> 4 [] ch = "5" -> 5 [] ch = "6" -> 6 [] ch = "7" -> 7
    [] ch = "8" -> 8 [] ch = "9" -> 9

(* index of the first character of s at or after i that is not white space *)
RECURSIVE SkipSpace(_, _)
SkipSpace(s, i) ==
  IF i <= Len(s) /\ IsSpace(s[i]) THEN SkipSpace(s, i + 1) ELSE i

(* index after an optional sign of s at i *)
SkipSign(s, i) == IF i <= Len(s) /\ s[i] \in {"+", "-"} THEN i + 1 ELSE i

(* index after the run of digits of s that starts at i *)
RECURSIVE DigitsEnd(_, _)
DigitsEnd(s, i) ==
  IF i <= Len(s) /\ IsDigit(s[i]) THEN DigitsEnd(s, i + 1) ELSE i

(* the number the run of digits of s that starts at i writes, 0 for none   *)
DigitsValue(s, i) ==
  IF DigitsEnd(s, i) = i THEN Zero
  ELSE StripZeros([k \in 1..(DigitsEnd(s, i) - i) |-> DigitVal(s[i + k - 1])])

(* the unsigned long of the sign and digits of s at i: a number above      *)
(* ULONG_MAX yields ULONG_MAX, a minus sign negates in unsigned arithmetic *)
ScanUnsigned(s, i) ==
  LET raw == DigitsValue(s, SkipSign(s, i))
  IN  IF NumLess(ULONG_MAX, raw) THEN ULONG_MAX
      ELSE IF i <= Len(s) /\ s[i] = "-" THEN Negate(raw)
      ELSE raw

(* strtoul (s, NULL, 10): white space is skipped, an optional sign and the *)
(* leading digits are converted, anything else yields 0 and no error is    *)
(* reported                                                                *)
Strtoul(s) == ScanUnsigned(s, SkipSpace(s, 1))

(* strtol (s, NULL, 10): as strtoul, within LONG_MIN .. LONG_MAX           *)
Strtol(s) ==
  LET i == SkipSpace(s, 1)
      raw == DigitsValue(s, SkipSign(s, i))
  IN  IF i <= Len(s) /\ s[i] = "-"
      THEN IF NumLess(TwoTo(63), raw) THEN Long(TRUE, TwoTo(63)) ELSE Long(TRUE, raw)
      ELSE IF NumLess(LONG_MAX, raw) THEN Long(FALSE, LONG_MAX) ELSE Long(FALSE, raw)

(* atoi (s): the number s writes; outside the range of int the behaviour   *)
(* is undefined, ub being what the call then yields: the conversion of     *)
(* strtol's value to int, or ub.value                                      *)
Atoi(s, ub) ==
  IF InIntRange(Strtol(s)) \/ ub.libc THEN LongToInt(Strtol(s)) ELSE ub.value

(* sscanf (s, "%lu,%lu", &a, &b): a conversion that finds no digits stops  *)
(* the scan and leaves its variable, and the later ones, as they were      *)
SscanfPair(s, a, b) ==
  LET i1 == SkipSpace(s, 1)
      k1 == DigitsEnd(s, SkipSign(s, i1))
      ok1 == k1 > SkipSign(s, i1)
      i2 == SkipSpace(s, k1 + 1)
      k2 == DigitsEnd(s, SkipSign(s, i2))
      ok2 == ok1 /\ k1 <= Len(s) /\ s[k1] = "," /\ k2 > SkipSign(s, i2)
  IN  << IF ok1 THEN ScanUnsigned(s, i1) ELSE a,
         IF ok2 THEN ScanUnsigned(s, i2) ELSE b >>

(* strtok (s, " ") called until it returns NULL: the maximal runs of       *)
(* characters other than the blank                                         *)
RECURSIVE StrtokFrom(_, _, _, _)
StrtokFrom(s, i, cur, acc) ==
  IF i > Len(s)
  THEN IF cur = <<>> THEN acc ELSE Append(acc, cur)
  ELSE IF s[i] = " "
       THEN StrtokFrom(s, i + 1, <<>>, IF cur = <<>> THEN acc ELSE Append(acc, cur))
       ELSE StrtokFrom(s, i + 1, Append(cur, s[i]), acc)

Strtok(s) == StrtokFrom(s, 1, <<>>, <<>>)

DigitStr == <<"0", "1", "2", "3", "4", "5", "6", "7", "8", "9">>

(* the numeral of a number *)
RECURSIVE NumStr(_)
NumStr(d) == IF Len(d) = 1 THEN DigitStr[d[1] + 1]
             ELSE DigitStr[d[1] + 1] \o NumStr(Tail(d))

(* printf ("%d", n) *)
IntToStr(n) ==
  IF n < 0 THEN "-" \o NumStr(IntToLong(n).mag) ELSE NumStr(NumOf(n))

(* num / den rounded to the nearest integer, ties to the even one, for an  *)
(* integer den: the rounding of a conversion to double and of "%0.1f"      *)
RoundHalfEven(num, den) ==
  LET d == NumDivMod(num, den)
      odd == d.q[Len(d.q)] % 2 = 1
  IN  IF 2 * d.r > den \/ (2 * d.r = den /\ odd) THEN NumMulAdd(d.q, 1, 1) ELSE d.q

(* the unit in the last place of the double nearest to v: 1 below 2^53     *)
RECURSIVE UlpFrom(_, _)
UlpFrom(v, k) == IF NumLess(v, TwoTo(53 + k)) THEN 2 ^ k ELSE UlpFrom(v, k + 1)

(* (double) v for an unsigned long v, as the integer it is *)
ToDouble(v) == NumMulAdd(RoundHalfEven(v, UlpFrom(v, 0)), UlpFrom(v, 0), 0)

(* printf ("%0.1f", t / 10.0) for a number of tenths t *)
FormatTenths(t) == NumStr(NumDivMod(t, 10).q) \o "." \o DigitStr[NumDivMod(t, 10).r + 1]

(* ---------------------------------------------------------------------- *)
(* utils: the two ways a run is ended early                                *)
(* ---------------------------------------------------------------------- *)
ExitRun(status, text) == [exited |-> TRUE, status |-> status, text |-> text]

(* usage (msg): print msg and the usage text, exit UNKNOWN *)
usage(msg) == ExitRun(STATE_UNKNOWN, msg)

(* terminate (state, msg): print msg, exit with state *)
terminate(state, msg) == ExitRun(state, msg)

(* ---------------------------------------------------------------------- *)
(* The configuration globals                                               *)
(* ---------------------------------------------------------------------- *)
InitialConf ==
  [ log_file |-> NULL,
    expire_minutes |-> 0 - 1,
    use_average |-> TRUE,
    incoming_warning_threshold |-> Zero,
    incoming_critical_threshold |-> Zero,
    outgoing_warning_threshold |-> Zero,
    outgoing_critical_threshold |-> Zero ]

(* ---------------------------------------------------------------------- *)
(* getopt_long (GNU): options are taken in order wherever they stand, the  *)
(* other tokens are moved behind them in their order, "--" ends the scan   *)
(* ---------------------------------------------------------------------- *)
MAX == <<"M", "A", "X">>
AVG == <<"A", "V", "G">>

longopts ==
  { [name |-> <<"l", "o", "g", "f", "i", "l", "e">>, has_arg |-> TRUE, val |-> "F"],
    [name |-> <<"e", "x", "p", "i", "r", "e", "s">>, has_arg |-> TRUE, val |-> "e"],
    [name |-> <<"a", "g", "g", "r", "e", "g", "a", "t", "i", "o", "n">>,
     has_arg |-> TRUE, val |-> "a"],
    [name |-> <<"v", "a", "r", "i", "a", "b", "l", "e">>, has_arg |-> TRUE, val |-> "v"],
    [name |-> <<"c", "r", "i", "t", "i", "c", "a", "l">>, has_arg |-> TRUE, val |-> "c"],
    [name |-> <<"w", "a", "r", "n", "i", "n", "g">>, has_arg |-> TRUE, val |-> "w"],
    [name |-> <<"v", "e", "r", "b", "o", "s", "e">>, has_arg |-> FALSE, val |-> "v"],
    [name |-> <<"v", "e", "r", "s", "i", "o", "n">>, has_arg |-> FALSE, val |-> "V"],
    [name |-> <<"h", "e", "l", "p">>, has_arg |-> FALSE, val |-> "h"] }

(* the short options "hVF:e:a:c:w:" *)
ShortWithArg == {"F", "e", "a", "c", "w"}

ShortNoArg == {"h", "V"}

IsPrefix(p, s) == Len(p) <= Len(s) /\ SubSeq(s, 1, Len(p)) = p

RECURSIVE IndexOf(_, _, _)
IndexOf(s, ch, i) ==
  IF i > Len(s) THEN i ELSE IF s[i] = ch THEN i ELSE IndexOf(s, ch, i + 1)

IsOptionToken(tok) == Len(tok) >= 2 /\ tok[1] = "-"

(* where getopt goes on behind the option letter at tok[k]: at the next    *)
(* letter of the token, or at the token behind it                          *)
BehindLetter(c, tok, i, k) ==
  IF k < Len(tok)
  THEN [c |-> c, optarg |-> NULL, next |-> i, nextchar |-> k + 1]
  ELSE [c |-> c, optarg |-> NULL, next |-> i + 1, nextchar |-> 2]

(* one call of getopt_long, which stands at the character k of the option  *)
(* token argv[i] (k = 2 at the start of a token): the value it returns     *)
(* ("?" for an unknown or ambiguous option or a missing argument), optarg, *)
(* and the token and the character at which the next call goes on.  A long *)
(* option is one token; short option letters can share a token, and a      *)
(* letter that takes an argument takes the rest of its token or, when      *)
(* nothing is left of it, the next token                                   *)
GetoptLong(argv, i, k) ==
  LET tok == argv[i]
      bad == [c |-> "?", optarg |-> NULL, next |-> i + 1, nextchar |-> 2]
  IN  IF k = 2 /\ tok[2] = "-"
      THEN LET eq == IndexOf(tok, "=", 3)
               name == SubSeq(tok, 3, eq - 1)
               exact == {o \in longopts : o.name = name}
               pfx == {o \in longopts : IsPrefix(name, o.name)}
               found == IF exact # {} THEN exact ELSE pfx
               same == \A o1, o2 \in found :
                         o1.has_arg = o2.has_arg /\ o1.val = o2.val
           IN  IF found = {} \/ ~same THEN bad
               ELSE LET o == CHOOSE x \in found : TRUE
                    IN  IF o.has_arg
                        THEN IF eq <= Len(tok)
                             THEN [c |-> o.val, optarg |-> SubSeq(tok, eq + 1, Len(tok)),
                                   next |-> i + 1, nextchar |-> 2]
                             ELSE IF i < Len(argv)
                                  THEN [c |-> o.val, optarg |-> argv[i + 1],
                                        next |-> i + 2, nextchar |-> 2]
                                  ELSE bad
                        ELSE IF eq <= Len(tok) THEN bad
                             ELSE [c |-> o.val, optarg |-> NULL,
                                   next |-> i + 1, nextchar |-> 2]
      ELSE IF tok[k] \in ShortWithArg
           THEN IF Len(tok) > k
                THEN [c |-> tok[k], optarg |-> SubSeq(tok, k + 1, Len(tok)),
                      next |-> i + 1, nextchar |-> 2]
                ELSE IF i < Len(argv)
                     THEN [c |-> tok[k], optarg |-> argv[i + 1],
                           next |-> i + 2, nextchar |-> 2]
                     ELSE bad
           ELSE IF tok[k] \in ShortNoArg
                THEN BehindLetter(tok[k], tok, i, k)
                ELSE BehindLetter("?", tok, i, k)

(* ---------------------------------------------------------------------- *)
(* process_arguments                                                       *)
(* ---------------------------------------------------------------------- *)
(* the rewriting of the old spellings -to, -wt, -ct *)
RewriteOldOptions(argv) ==
  [i \in 1..Len(argv) |->
     IF argv[i] = <<"-", "t", "o">> THEN <<"-", "t">>
     ELSE IF argv[i] = <<"-", "w", "t">> THEN <<"-", "w">>
     ELSE IF argv[i] = <<"-", "c", "t">> THEN <<"-", "c">>
     ELSE argv[i]]

(* the switch on the option getopt returned: the configuration after it *)
ApplyOption(conf, c, optarg, ub) ==
  CASE c = "F" -> [conf EXCEPT !.log_file = optarg]
    [] c = "e" -> [conf EXCEPT !.expire_minutes = Atoi(optarg, ub)]
    [] c = "a" -> [conf EXCEPT !.use_average = (optarg # MAX)]
    [] c = "c" ->
         LET p == SscanfPair(optarg, conf.incoming_critical_threshold,
                             conf.outgoing_critical_threshold)
         IN  [conf EXCEPT !.incoming_critical_threshold = p[1],
                          !.outgoing_critical_threshold = p[2]]
    [] c = "w" ->
         LET p == SscanfPair(optarg, conf.incoming_warning_threshold,
                             conf.outgoing_warning_threshold)
         IN  [conf EXCEPT !.incoming_warning_threshold = p[1],
                          !.outgoing_warning_threshold = p[2]]
    [] OTHER -> conf

(* the tokens left at argv[optind..] fill what the options left unset, one  *)
(* test each, st.c being the index of the next token to take               *)
TakeLogFile(st, rest) ==
  IF Len(rest) >= st.c /\ st.conf.log_file = NULL
  THEN [conf |-> [st.conf EXCEPT !.log_file = rest[st.c]], c |-> st.c + 1]
  ELSE st

TakeExpireMinutes(st, rest, ub) ==
  IF Len(rest) >= st.c /\ st.conf.expire_minutes = 0 - 1
  THEN [conf |-> [st.conf EXCEPT !.expire_minutes = Atoi(rest[st.c], ub)], c |-> st.c + 1]
  ELSE st

TakeAggregation(st, rest) ==
  IF Len(rest) >= st.c /\ rest[st.c] = MAX
  THEN [conf |-> [st.conf EXCEPT !.use_average = FALSE], c |-> st.c + 1]
  ELSE IF Len(rest) >= st.c /\ rest[st.c] = AVG
  THEN [conf |-> [st.conf EXCEPT !.use_average = TRUE], c |-> st.c + 1]
  ELSE st

TakeIncomingWarning(st, rest) ==
  IF Len(rest) >= st.c /\ st.conf.incoming_warning_threshold = Zero
  THEN [conf |-> [st.conf EXCEPT !.incoming_warning_threshold = Strtoul(rest[st.c])],
        c |-> st.c + 1]
  ELSE st

TakeIncomingCritical(st, rest) ==
  IF Len(rest) >= st.c /\ st.conf.incoming_critical_threshold = Zero
  THEN [conf |-> [st.conf EXCEPT !.incoming_critical_threshold = Strtoul(rest[st.c])],
        c |-> st.c + 1]
  ELSE st

TakeOutgoingWarning(st, rest) ==
  IF Len(rest) >= st.c /\ st.conf.outgoing_warning_threshold = Zero
  THEN [conf |-> [st.conf EXCEPT !.outgoing_warning_threshold = Strtoul(rest[st.c])],
        c |-> st.c + 1]
  ELSE st

TakeOutgoingCritical(st, rest) ==
  IF Len(rest) >= st.c /\ st.conf.outgoing_critical_threshold = Zero
  THEN [conf |-> [st.conf EXCEPT !.outgoing_critical_threshold = Strtoul(rest[st.c])],
        c |-> st.c + 1]
  ELSE st

PositionalArguments(conf, rest, ub) ==
  TakeOutgoingCritical(
    TakeOutgoingWarning(
      TakeIncomingCritical(
        TakeIncomingWarning(
          TakeAggregation(
            TakeExpireMinutes(
              TakeLogFile([conf |-> conf, c |-> 1], rest), rest, ub), rest), rest),
        rest), rest), rest).conf

validate_arguments(conf) == TRUE

HelpText == "check_mrtgtraf help"

RevisionText == "check_mrtgtraf revision"

(* the cases of the switch that end the run, were the exit after           *)
(* print_help missing: control would fall into the next case               *)
OptionExitHelpFallsThrough(c) ==
  CASE c = "V" -> ExitRun(STATE_OK, RevisionText)
    [] c = "h" -> usage("Invalid argument")
    [] c = "?" -> usage("Invalid argument")

(* the cases of the switch that end the run: version, help, invalid option *)
OptionExit(c) ==
  CASE c = "V" -> ExitRun(STATE_OK, RevisionText)
    [] c = "h" -> ExitRun(STATE_OK, HelpText)
    [] c = "?" -> usage("Invalid argument")

(* process_arguments returns: the globals as they stand and its value *)
Returned(conf) ==
  [exited |-> FALSE, ok |-> validate_arguments(conf), conf |-> conf]

(* the run ends inside process_arguments: the globals as they stand then *)
Ended(conf, r) ==
  [exited |-> TRUE, status |-> r.status, text |-> r.text, conf |-> conf]

(* the getopt loop from token i on, then the positional tokens: either the *)
(* run is ended (help, version, an invalid option) or the configuration is *)
(* returned with the value of validate_arguments                           *)
RECURSIVE ScanArguments(_, _, _, _, _, _)
ScanArguments(argv, i, k, conf, nonopts, ub) ==
  IF i > Len(argv)
  THEN Returned(PositionalArguments(conf, nonopts, ub))
  ELSE IF k = 2 /\ argv[i] = <<"-", "-">>
  THEN Returned(PositionalArguments(conf, nonopts \o SubSeq(argv, i + 1, Len(argv)), ub))
  ELSE IF k = 2 /\ ~IsOptionToken(argv[i])
  THEN ScanArguments(argv, i + 1, 2, conf, Append(nonopts, argv[i]), ub)
  ELSE LET g == GetoptLong(argv, i, k)
       IN  IF g.c \in {"V", "h", "?"}
           THEN Ended(conf, OptionExit(g.c))
           ELSE ScanArguments(argv, g.next, g.nextchar,
                              ApplyOption(conf, g.c, g.optarg, ub), nonopts, ub)

(* process_arguments (argc, argv), argv without the program's name *)
process_arguments(argv, ub) ==
  IF Len(argv) + 1 < 2
  THEN [exited |-> FALSE, ok |-> FALSE, conf |-> InitialConf]
  ELSE ScanArguments(RewriteOldOptions(argv), 1, 2, InitialConf, <<>>, ub)

(* ---------------------------------------------------------------------- *)
(* main: the log file                                                      *)
(* ---------------------------------------------------------------------- *)
(* the file system: a node is the sequence of names that lead to it from   *)
(* the root directory.  The working directory holds one file, the log, and *)
(* the directories above it hold nothing else                              *)
WorkingDirectory == << <<"r">>, <<"c">> >>

(* the name of the log file, which is also its path from the working       *)
(* directory                                                               *)
LogPath == <<"l", "o", "g">>

LogNode == Append(WorkingDirectory, LogPath)

(* no name holds a slash: the node of a path that leads nowhere *)
NoNode == << <<"/">> >>

IsDirectoryNode(node) ==
  /\ Len(node) <= Len(WorkingDirectory)
  /\ node = SubSeq(WorkingDirectory, 1, Len(node))

(* the parts of two pieces of a path put together: the last part of the    *)
(* first piece goes on in the first part of the second                     *)
JoinParts(l, r) ==
  SubSeq(l, 1, Len(l) - 1) \o << l[Len(l)] \o r[1] >> \o Tail(r)

(* the parts of path[lo..hi] between its slashes *)
RECURSIVE PathParts(_, _, _)
PathParts(path, lo, hi) ==
  IF lo > hi THEN << <<>> >>
  ELSE IF lo = hi
  THEN IF path[lo] = "/" THEN << <<>>, <<>> >> ELSE << <<path[lo]>> >>
  ELSE JoinParts(PathParts(path, lo, (lo + hi) \div 2),
                 PathParts(path, (lo + hi) \div 2 + 1, hi))

(* the node a part leads to from a directory: an empty part and "." stay,  *)
(* ".." is the parent (the root is its own parent), a name is an entry of  *)
(* the directory if there is one                                           *)
StepTo(node, part) ==
  IF part \in {<<>>, <<".">>} THEN node
  ELSE IF part = <<".", ".">>
  THEN IF node = <<>> THEN node ELSE SubSeq(node, 1, Len(node) - 1)
  ELSE IF IsDirectoryNode(Append(node, part)) \/ Append(node, part) = LogNode
  THEN Append(node, part)
  ELSE NoNode

(* path resolution along the parts lo..hi: every part is looked up in a    *)
(* directory, so nothing can follow the log file or a missing entry        *)
RECURSIVE Walk(_, _, _, _)
Walk(node, parts, lo, hi) ==
  IF node = NoNode \/ lo > hi THEN node
  ELSE IF lo = hi
  THEN IF IsDirectoryNode(node) THEN StepTo(node, parts[lo]) ELSE NoNode
  ELSE Walk(Walk(node, parts, lo, (lo + hi) \div 2), parts, (lo + hi) \div 2 + 1, hi)

(* the node the parts lead to from a start *)
WalkFrom(start, parts) == Walk(start, parts, 1, Len(parts))

(* the bytes a path can have, its closing zero byte included *)
PATH_MAX == 4096

(* the node a path names: an absolute path starts at the root, any other   *)
(* at the working directory; the empty path names nothing, and neither     *)
(* does a path longer than the system takes                                *)
Resolve(path) ==
  IF path = NULL \/ path = <<>> \/ Len(path) + 1 > PATH_MAX THEN NoNode
  ELSE WalkFrom(IF path[1] = "/" THEN <<>> ELSE WorkingDirectory,
                PathParts(path, 1, Len(path)))

(* the path leads to the log file *)
NamesLog(path) == Resolve(path) = LogNode

(* the path leads to a directory *)
NamesDirectory(path) == IsDirectoryNode(Resolve(path))

(* fopen (path, "r") succeeds: on the log file, and on a directory, which  *)
(* can be opened but not read                                              *)
Fopen(path) == NamesLog(path) \/ NamesDirectory(path)

(* the bytes fgets can read from the stream fopen (path, "r") gave, lines  *)
(* being the lines of the log file                                         *)
RECURSIVE FileContent(_)
FileContent(lines) ==
  IF lines = <<>> THEN <<>> ELSE Head(lines) \o FileContent(Tail(lines))

StreamContent(path, lines) == IF NamesLog(path) THEN FileContent(lines) ELSE <<>>

MAX_INPUT_BUFFER == 1024

(* the index of the last byte fgets (buffer, size, fp) reads from position *)
(* pos: it stops behind a newline, after size - 1 bytes, or at the end     *)
FgetsEnd(content, pos, size) ==
  LET top == IF Len(content) < pos + size - 1 THEN Len(content) ELSE pos + size - 1
      nls == {k \in (pos + 1)..top : content[k] = "\n"}
  IN  IF nls = {} THEN top ELSE CHOOSE k \in nls : \A j \in nls : k <= j

(* what fgets leaves in the buffer *)
Fgets(content, pos, size) == SubSeq(content, pos + 1, FgetsEnd(content, pos, size))

(* ---------------------------------------------------------------------- *)
(* main: the evaluation of the record                                      *)
(* ---------------------------------------------------------------------- *)
(* the unit a rate is reported in *)
speed_rating(rate) ==
  IF NumLess(rate, NumOf(1024)) THEN "B/s"
  ELSE IF NumLess(rate, NumOf(1024 * 1024)) THEN "KB/s"
  ELSE "MB/s"

(* the adjusted rate, in tenths of its unit, as "%0.1f" prints it *)
adjusted_rate(rate) ==
  IF NumLess(rate, NumOf(1024)) THEN NumMulAdd(ToDouble(rate), 10, 0)
  ELSE IF NumLess(rate, NumOf(1024 * 1024))
  THEN RoundHalfEven(NumMulAdd(ToDouble(rate), 10, 0), 1024)
  ELSE RoundHalfEven(NumMulAdd(ToDouble(rate), 10, 0), 1024 * 1024)

(* the choice of the rates, were the aggregation mode ignored *)
SelectRatesAlwaysAverage(avg, rec) ==
  [incoming_rate |-> rec.average_incoming_rate,
   outgoing_rate |-> rec.average_outgoing_rate]

(* the pair of rates the thresholds are compared with *)
SelectRates(avg, rec) ==
  IF avg = TRUE
  THEN [incoming_rate |-> rec.average_incoming_rate,
        outgoing_rate |-> rec.average_outgoing_rate]
  ELSE [incoming_rate |-> rec.maximum_incoming_rate,
        outgoing_rate |-> rec.maximum_outgoing_rate]

Label(avg) == IF avg = TRUE THEN "Ave" ELSE "Max"

(* "%s. In = %0.1f %s, %s. Out = %0.1f %s" *)
RateText(avg, incoming_rate, outgoing_rate) ==
  Label(avg) \o ". In = " \o FormatTenths(adjusted_rate(incoming_rate)) \o " "
    \o speed_rating(incoming_rate) \o ", " \o Label(avg) \o ". Out = "
    \o FormatTenths(adjusted_rate(outgoing_rate)) \o " " \o speed_rating(outgoing_rate)

(* the threshold tests, were a rate equal to its critical threshold to count *)
RateResultInclusive(conf, incoming_rate, outgoing_rate) ==
  IF ~NumLess(incoming_rate, conf.incoming_critical_threshold)
     \/ ~NumLess(outgoing_rate, conf.outgoing_critical_threshold)
  THEN STATE_CRITICAL
  ELSE IF NumLess(conf.incoming_warning_threshold, incoming_rate)
          \/ NumLess(conf.outgoing_warning_threshold, outgoing_rate)
       THEN STATE_WARNING
       ELSE STATE_OK

(* the result of the two threshold tests *)
RateResult(conf, incoming_rate, outgoing_rate) ==
  IF NumLess(conf.incoming_critical_threshold, incoming_rate)
     \/ NumLess(conf.outgoing_critical_threshold, outgoing_rate)
  THEN STATE_CRITICAL
  ELSE IF NumLess(conf.incoming_warning_threshold, incoming_rate)
          \/ NumLess(conf.outgoing_warning_threshold, outgoing_rate)
       THEN STATE_WARNING
       ELSE STATE_OK

(* the line the run prints for a result *)
ResultText(result, avg, incoming_rate, outgoing_rate) ==
  IF result = STATE_OK
  THEN "Traffic ok - " \o RateText(avg, incoming_rate, outgoing_rate)
  ELSE RateText(avg, incoming_rate, outgoing_rate)

(* current_time - timestamp in the arithmetic of long, for now >= 0; a     *)
(* difference above LONG_MAX wraps                                         *)
Age(now, stamp) ==
  IF stamp.neg THEN ToLong(NumMulAdd(stamp.mag, 1, now))
  ELSE IF NumLess(NumOf(now), stamp.mag) THEN Long(TRUE, NumSub(stamp.mag, NumOf(now)))
  ELSE Long(FALSE, NumSub(NumOf(now), stamp.mag))

(* expire_minutes * 60 in the arithmetic of int, for minutes > 0; a        *)
(* product above INT_MAX wraps                                             *)
ExpireSeconds(minutes) == LongToInt(Long(FALSE, NumMulAdd(NumOf(minutes), 60, 0)))

(* the age test overflows a signed type: its behaviour is undefined *)
ExpiryUndefined(minutes, now, stamp) ==
  /\ minutes > 0
  /\ \/ minutes > INT_MAX \div 60
     \/ stamp.neg /\ NumLess(LONG_MAX, NumMulAdd(stamp.mag, 1, now))

(* the test that the newest entry is too old *)
DataExpired(minutes, now, stamp) ==
  minutes > 0 /\ LongLess(IntToLong(ExpireSeconds(minutes)), Age(now, stamp))

(* "MRTG data has expired (%d minutes old)" of (int) (age / 60) *)
ExpiredText(now, stamp) ==
  "MRTG data has expired ("
    \o IntToStr(LongToInt(Long(Age(now, stamp).neg, NumDivMod(Age(now, stamp).mag, 60).q)))
    \o " minutes old)"

(* ---------------------------------------------------------------------- *)
(* Inputs of a run: the command line, the log file, the clock              *)
(* ---------------------------------------------------------------------- *)
MaxLines == 3

HeaderLine ==
  <<"h", "e", "a", "d", "e", "r", "\n">>

Record1 ==
  <<"1", "0", "0", " ", "5", "0", "0", " ", "6", "0", "0", " ", "7", "0", "0", " ", "8", "0", "0", "\n">>

Record2 ==
  <<"1", "0", "0", " ", "1", "2", "8", "0", " ", "6", "0", "0", " ", "5", "0", "0", " ", "1", "5", "7", "2", "8", "6", "4", "\n">>

ShortLine ==
  <<"1", "0", "0", " ", "5", "0", "0", "\n">>

NonNumericLine ==
  <<"a", "b", "c", " ", "5", " ", "x", " ", "7", " ", "8", "\n">>

LineSet == {HeaderLine, Record1, ShortLine, NonNumericLine}

(* the log files of at most MaxLines lines *)
AllLogs == UNION {[1..n -> LineSet] : n \in 0..MaxLines}

(* log files with a header, a record and one more line *)
RecordLogs == {<<HeaderLine, Record1, Record2>>, <<HeaderLine, Record2, Record1>>}

(* the numeral of 2^64 - 5 and of 2^64 *)
BigToken ==
  <<"1", "8", "4", "4", "6", "7", "4", "4", "0", "7", "3", "7", "0", "9", "5", "5", "1", "6", "1", "1">>

OverToken ==
  <<"1", "8", "4", "4", "6", "7", "4", "4", "0", "7", "3", "7", "0", "9", "5", "5", "1", "6", "1", "6">>

(* 100 -5 2^64 2^53+1 -1: rates that fill an unsigned long *)
WideRecord ==
  <<"1", "0", "0", " ", "-", "5", " ">> \o OverToken
    \o <<" ", "9", "0", "0", "7", "1", "9", "9", "2", "5", "4", "7", "4", "0", "9", "9", "3",
         " ", "-", "1", "\n">>

(* a record stamped five seconds before the epoch *)
EarlyRecord ==
  <<"-", "5", " ", "5", "0", "0", " ", "6", "0", "0", " ", "7", "0", "0", " ", "8", "0", "0", "\n">>

(* a first line longer than the buffer main reads into *)
LongHeader == [i \in 1..(MAX_INPUT_BUFFER + 10) |-> "h"] \o <<"\n">>

(* log files that reach the limits of the C types and of the buffer *)
WideLogs ==
  { <<HeaderLine, WideRecord, Record1>>,
    <<HeaderLine, EarlyRecord, Record1>>,
    <<LongHeader, Record1, Record1>> }

SpecialArgvs ==
  { <<>>,
    << <<"-", "x", "h">> >>,
    << <<"-", "h", "x">> >>,
    << <<"-", "V", "h">> >>,
    << <<"-", "h", "F">>, LogPath >>,
    << <<"-", "F">>, LogPath, <<"-", "x", "V">> >>,
    << <<"-", "F", "h">>, <<"-", "e">>, <<"5">> >>,
    << <<"-", "F">>, <<"-", "h">> >>,
    << <<"-", "e", "5">>, <<"-", "F", "l", "o", "g">> >>,
    << <<"-", "h", "-">> >>,
    << <<"-", "-", "-", "h">> >>,
    << <<"-", "x", "-", "h", "e", "l", "p">> >>,
    << <<"-", "x">>, <<"-", "-">>, <<"-", "h">> >>,
    << <<"-", "h">> >>,
    << <<"-", "-", "h", "e", "l", "p">> >>,
    << <<"-", "V">> >>,
    << <<"-", "-", "v", "e", "r", "s", "i", "o", "n">> >>,
    << <<"-", "-", "h", "e">> >>,
    << <<"-", "-", "v", "e", "r">> >>,
    << <<"-", "e">>, <<"5">> >>,
    << <<"-", "F">>, LogPath>>,
    <<LogPath>>,
    << <<"-", "F">>, LogPath, <<"-", "e">>, <<"a", "b", "c">> >>,
    << <<"-", "F">>, LogPath, <<"-", "e">>, <<"5">> >>,
    <<LogPath, <<"5">> >>,
    <<LogPath, <<"a", "b", "c">> >>,
    << <<"-", "x">>, <<"-", "h">> >>,
    << <<"-", "h">>, <<"-", "x">> >>,
    << <<"-", "F">>, LogPath, <<"-", "h">> >>,
    <<LogPath, <<"-", "V">> >>,
    << <<"-", "-">>, <<"-", "h">> >>,
    << <<"-", "F">>, <<"n", "o", "l", "o", "g">> >>,
    << <<"n", "o", "l", "o", "g">> >>,
    << <<"-", "F">>, LogPath, <<"-", "e">>, <<"5">>, <<"-", "a">>, AVG, MAX>>,
    << <<"-", "F">>, LogPath, <<"-", "e">>, <<"5">>, <<"-", "w">>,
       <<"0", ",", "6", "0", "0">>, <<"5", "0", "0">> >>,
    << <<"-", "F">>, LogPath, <<"-", "w">>, <<"a", "b", "c">> >>,
    << <<"-", "F">>, LogPath, <<"-", "c">>, <<"5", "x", ",", "7">> >>,
    << <<"-", "F">>, LogPath, <<"-", "w">>, <<"5", "0", "0">> >>,
    << <<"-", "F">> >>,
    << <<"-", "w", "t">>, <<"5", "0", "0", ",", "6", "0", "0">>, <<"-", "F">>, LogPath>>,
    << <<"-", "c", "t">>, <<"5", "0", "0", ",", "6", "0", "0">>, <<"-", "F">>, LogPath>>,
    << <<"-", "t", "o">>, <<"5">>, LogPath>>,
    << <<"-", "-", "l", "o", "g", "f", "i", "l", "e", "=", "l", "o", "g">>,
       <<"-", "-", "e", "x", "p", "i", "r", "e", "s", "=", "5">> >>,
    << <<"-", "-", "l", "o", "g", "f", "i", "l", "e">>,
       LogPath, <<"-", "-", "c", "r", "i", "t", "i", "c", "a", "l">>,
       <<"5", "0", "0", ",", "6", "0", "0">> >>,
    << <<"-", "-", "v", "e", "r", "b", "o", "s", "e">>, <<"-", "F">>, LogPath>>,
    << <<"-", "-", "v", "a", "r", "i", "a", "b", "l", "e">>, <<"x">>, LogPath>>,
    << <<"-", "F", "l", "o", "g">>, <<"-", "e", "5">> >>,
    <<LogPath, <<"5">>, MAX>>,
    <<LogPath, <<"5">>, <<"X", "Y", "Z">>, <<"5", "0", "0">> >>,
    <<LogPath, <<"5">>, AVG, <<"a", "b", "c">>, <<"5", "0", "0">>, <<"6", "0", "0">>,
       <<"7", "0", "0">> >>,
    <<LogPath, <<"0">>, AVG, <<"0">>, <<"0">>, <<"0">>, <<"0">> >>,
    << <<"-", "F">>, LogPath, <<"-", "e">>, <<"0">>, <<"-", "a">>, AVG, <<"-", "w">>,
       <<"0", ",", "0">>, <<"-", "c">>, <<"0", ",", "0">> >> }

(* command lines that reach the limits of the C types, and other          *)
(* spellings of the path                                                   *)
(* "./" n times *)
DotSlashes(n) == [j \in 1..(2 * n) |-> IF j % 2 = 1 THEN "." ELSE "/"]

WideArgvs ==
  { << <<"-", "F">>, LogPath, <<"-", "e">>, <<"5">> >>,
    << <<"-", "F">>, <<".", "/", "l", "o", "g">>, <<"-", "e">>, <<"5">> >>,
    << <<"-", "F">>, <<"l", "o", "g", "/">> >>,
    << <<"-", "F">>, <<".">> >>,
    << <<"-", "F">>, DotSlashes(PATH_MAX \div 2 - 2) \o LogPath, <<"-", "e">>, <<"5">> >>,
    << <<"-", "F">>, DotSlashes(PATH_MAX \div 2 - 1) \o LogPath, <<"-", "e">>, <<"5">> >>,
    << <<"-", "F">>, DotSlashes(PATH_MAX \div 2) >>,
    << <<"-", "F">>, <<".", ".", "/", "c", "/", "l", "o", "g">>, <<"-", "e">>, <<"5">> >>,
    << <<"-", "F">>, <<"/", "r", "/", "c", "/", "l", "o", "g">>, <<"-", "e">>, <<"5">> >>,
    << <<"-", "F">>, <<".", "/", ".", ".", "/", "c", "/", ".", "/", "l", "o", "g">>,
       <<"-", "e">>, <<"5">> >>,
    << <<".", ".", "/", "c", "/", "l", "o", "g">>, <<"5">> >>,
    << <<"-", "F">>, <<".", ".", "/", "c">> >>,
    << <<"-", "F">>, <<"/", "r", "/", ".", ".", "/", ".", ".", "/", "r">> >>,
    << <<"-", "F">>, <<".", ".", "/", "x", "/", "l", "o", "g">> >>,
    << <<"-", "F">>, <<"l", "o", "g", "/", ".", ".", "/", "l", "o", "g">> >>,
    << <<"-", "F">>, LogPath, <<"-", "e">>, <<VT, "5">> >>,
    << <<"-", "F">>, LogPath, <<"-", "e">>,
       <<"2", "1", "4", "7", "4", "8", "3", "6", "4", "8">> >>,
    << <<"-", "F">>, LogPath, <<"-", "e">>, <<"3", "5", "7", "9", "1", "3", "9", "5">> >>,
    << <<"-", "F">>, LogPath, <<"-", "e">>, <<"0">>, <<"-", "c">>,
       <<"-", "5", ",", "-", "5">> >>,
    << <<"-", "F">>, LogPath, <<"-", "e">>, <<"0">>, <<"-", "a">>, MAX, <<"-", "c">>,
       OverToken \o <<",">> \o OverToken, <<"-", "w">>, <<VT, "5", ",", "-", "7">> >>,
    << <<"-", "F">>, LogPath, <<"-", "e">>, <<"0">>, <<"-", "c">>,
       BigToken \o <<",">> \o BigToken, <<"-", "w">>, BigToken \o <<",">> \o BigToken >>,
    << <<"-", "-">>, LogPath, <<"-", "5">>, AVG, <<"-", "5">>, <<"-", "5">>,
       <<"-", "1">>, <<"-", "1">> >> }

NumberTokens == {<<"0">>, <<"5", "0", "0">>, <<"6", "0", "0">>}

ExpireTokens == {<<"0">>, <<"5">>}

(* -F <log_file> -e <expire_minutes> -a <AVG|MAX> -w <iwl>,<owl> -c <icl>,<ocl> *)
FlagForm(f, e, a, iwl, icl, owl, ocl) ==
  << <<"-", "F">>, f, <<"-", "e">>, e, <<"-", "a">>, a,
     <<"-", "w">>, iwl \o <<",">> \o owl, <<"-", "c">>, icl \o <<",">> \o ocl >>

(* <log_file> <expire_minutes> <AVG|MAX> <iwl> <icl> <owl> <ocl> *)
LegacyForm(f, e, a, iwl, icl, owl, ocl) == <<f, e, a, iwl, icl, owl, ocl>>

ThresholdArgvs ==
  UNION { {FlagForm(LogPath, e, a, t[1], t[2], t[3], t[4]),
           LegacyForm(LogPath, e, a, t[1], t[2], t[3], t[4])} :
          e \in ExpireTokens, a \in {AVG, MAX},
          t \in NumberTokens \X NumberTokens \X NumberTokens \X NumberTokens }

(* the values time () returns: the records are stamped 100 *)
Times == {110, 400, 401, 700}

(* what an undefined read or conversion yields when the run survives it *)
UBValues == {0, 2000}

(* the ways an atoi outside the range of int can end *)
AtoiUndefined ==
  {[libc |-> TRUE, value |-> 0]} \cup {[libc |-> FALSE, value |-> v] : v \in UBValues}

(* ---------------------------------------------------------------------- *)
(* State                                                                   *)
(* ---------------------------------------------------------------------- *)
VARIABLES
  argv,                         \* the command line after the program's name
  log,                          \* the lines of the file at LogPath
  clock,                        \* the value time () returns in this run
  pc,                           \* where main stands
  log_file, expire_minutes, use_average,
  incoming_warning_threshold, incoming_critical_threshold,
  outgoing_warning_threshold, outgoing_critical_threshold,
  fp,                           \* "unset", "open" or "closed"
  line,                         \* main's line counter
  fpos,                         \* the bytes of the file fgets has read
  timestamp, average_incoming_rate, average_outgoing_rate,
  maximum_incoming_rate, maximum_outgoing_rate,
  exit_code,                    \* the exit status, once pc = "exited"
  output,                       \* the line printed, once pc = "exited"
  fopens, fcloses               \* successful fopen calls, fclose calls

inputVars == <<argv, log, clock>>

confVars ==
  <<log_file, expire_minutes, use_average, incoming_warning_threshold,
    incoming_critical_threshold, outgoing_warning_threshold,
    outgoing_critical_threshold>>

recVars ==
  <<timestamp, average_incoming_rate, average_outgoing_rate,
    maximum_incoming_rate, maximum_outgoing_rate>>

fileVars == <<fp, line, fpos, fopens, fcloses>>

vars == <<inputVars, pc, confVars, recVars, fileVars, exit_code, output>>

(* the globals as one record *)
Conf ==
  [ log_file |-> log_file,
    expire_minutes |-> expire_minutes,
    use_average |-> use_average,
    incoming_warning_threshold |-> incoming_warning_threshold,
    incoming_critical_threshold |-> incoming_critical_threshold,
    outgoing_warning_threshold |-> outgoing_warning_threshold,
    outgoing_critical_threshold |-> outgoing_critical_threshold ]

(* main's five record variables as one record *)
Rec ==
  [ timestamp |-> timestamp,
    average_incoming_rate |-> average_incoming_rate,
    average_outgoing_rate |-> average_outgoing_rate,
    maximum_incoming_rate |-> maximum_incoming_rate,
    maximum_outgoing_rate |-> maximum_outgoing_rate ]

Init ==
  /\ \/ argv \in SpecialArgvs /\ log \in AllLogs
     \/ argv \in ThresholdArgvs /\ log \in RecordLogs
     \/ argv \in WideArgvs /\ log \in WideLogs
  /\ clock \in Times
  /\ pc = "main"
  /\ log_file = InitialConf.log_file
  /\ expire_minutes = InitialConf.expire_minutes
  /\ use_average = InitialConf.use_average
  /\ incoming_warning_threshold = InitialConf.incoming_warning_threshold
  /\ incoming_critical_threshold = InitialConf.incoming_critical_threshold
  /\ outgoing_warning_threshold = InitialConf.outgoing_warning_threshold
  /\ outgoing_critical_threshold = InitialConf.outgoing_critical_threshold
  /\ fp = "unset"
  /\ line = 0
  /\ fpos = 0
  /\ timestamp = Long(FALSE, Zero)
  /\ average_incoming_rate = Zero
  /\ average_outgoing_rate = Zero
  /\ maximum_incoming_rate = Zero
  /\ maximum_outgoing_rate = Zero
  /\ exit_code = STATE_OK
  /\ output = ""
  /\ fopens = 0
  /\ fcloses = 0

(* the process ends: exit (status) after printing text *)
Exit(r) ==
  /\ pc' = "exited"
  /\ exit_code' = r.status
  /\ output' = r.text

(* the process is killed by a signal *)
Crash ==
  /\ pc' = "crashed"
  /\ UNCHANGED <<exit_code, output>>

(* the globals take the values of conf *)
AssignConf(conf) ==
  /\ log_file' = conf.log_file
  /\ expire_minutes' = conf.expire_minutes
  /\ use_average' = conf.use_average
  /\ incoming_warning_threshold' = conf.incoming_warning_threshold
  /\ incoming_critical_threshold' = conf.incoming_critical_threshold
  /\ outgoing_warning_threshold' = conf.outgoing_warning_threshold
  /\ outgoing_critical_threshold' = conf.outgoing_critical_threshold

(* main's record variables take the values of rec *)
AssignRec(rec) ==
  /\ timestamp' = rec.timestamp
  /\ average_incoming_rate' = rec.average_incoming_rate
  /\ average_outgoing_rate' = rec.average_outgoing_rate
  /\ maximum_incoming_rate' = rec.maximum_incoming_rate
  /\ maximum_outgoing_rate' = rec.maximum_outgoing_rate

(* ---------------------------------------------------------------------- *)
(* The steps of main                                                       *)
(* ---------------------------------------------------------------------- *)
(* process_arguments and the test of its value: help, version and an       *)
(* invalid option end the run inside it, after the options before them     *)
(* have set their globals; ERROR ends it with the usage text               *)
ProcessArguments ==
  /\ pc = "main"
  /\ \E ub \in AtoiUndefined :
       LET r == process_arguments(argv, ub)
       IN  /\ AssignConf(r.conf)
           /\ IF r.exited
              THEN Exit(r)
              ELSE IF ~r.ok
              THEN Exit(usage("Invalid command arguments supplied"))
              ELSE pc' = "fopen" /\ UNCHANGED <<exit_code, output>>
  /\ UNCHANGED <<inputVars, recVars, fileVars>>

(* fp = fopen (log_file, "r") and the test of fp.  fopen (NULL, ...) is    *)
(* undefined: the call fails or the process is killed                      *)
OpenLog ==
  /\ pc = "fopen"
  /\ IF Fopen(log_file)
     THEN /\ fp' = "open"
          /\ fopens' = fopens + 1
          /\ line' = 0
          /\ pc' = "fgets"
          /\ UNCHANGED <<fpos, fcloses, exit_code, output>>
     ELSE /\ \/ Exit(usage("Unable to open MRTG log file"))
             \/ log_file = NULL /\ Crash
          /\ UNCHANGED fileVars
  /\ UNCHANGED <<inputVars, confVars, recVars>>

(* the five strtoul calls on the tokens of the buffer; a token that is     *)
(* missing is a null pointer, and reading it is undefined: missing holds   *)
(* what such a call leaves in its variable                                 *)
ParseRecord(buffer, missing) ==
  LET tok == Strtok(buffer)
  IN  [ timestamp |->
          IF 1 <= Len(tok) THEN ToLong(Strtoul(tok[1])) ELSE missing.timestamp,
        average_incoming_rate |->
          IF 2 <= Len(tok) THEN Strtoul(tok[2]) ELSE missing.average_incoming_rate,
        average_outgoing_rate |->
          IF 3 <= Len(tok) THEN Strtoul(tok[3]) ELSE missing.average_outgoing_rate,
        maximum_incoming_rate |->
          IF 4 <= Len(tok) THEN Strtoul(tok[4]) ELSE missing.maximum_incoming_rate,
        maximum_outgoing_rate |->
          IF 5 <= Len(tok) THEN Strtoul(tok[5]) ELSE missing.maximum_outgoing_rate ]

(* a record all of whose fields are the unsigned long v *)
Garbage(v) ==
  [ timestamp |-> ToLong(v),
    average_incoming_rate |-> v,
    average_outgoing_rate |-> v,
    maximum_incoming_rate |-> v,
    maximum_outgoing_rate |-> v ]

(* the first line is skipped *)
SkipLine(n) == n = 1

(* the loop is left once the lines wanted were passed *)
PastWantedLines(n) == n > 2

(* one turn of the read loop: fgets, the line counter, and for the line    *)
(* that holds the record the five conversions.  When a token is missing    *)
(* the run either goes on with garbage in the variables or is killed at    *)
(* the first conversion of a null pointer                                  *)
ReadLine ==
  /\ pc = "fgets"
  /\ IF fpos >= Len(StreamContent(log_file, log))
     THEN /\ pc' = "fclose"
          /\ UNCHANGED <<line, fpos, recVars>>
     ELSE LET buffer == Fgets(StreamContent(log_file, log), fpos, MAX_INPUT_BUFFER - 1)
          IN  /\ fpos' = fpos + Len(buffer)
              /\ line' = line + 1
              /\ IF SkipLine(line')
                 THEN pc' = "fgets" /\ UNCHANGED recVars
                 ELSE IF PastWantedLines(line')
                 THEN pc' = "fclose" /\ UNCHANGED recVars
                 ELSE \/ \E g \in UBValues :
                           /\ AssignRec(ParseRecord(buffer, Garbage(NumOf(g))))
                           /\ pc' = "fgets"
                      \/ /\ Len(Strtok(buffer)) < 5
                         /\ AssignRec(ParseRecord(buffer, Rec))
                         /\ pc' = "crashed"
  /\ UNCHANGED <<inputVars, confVars, fp, fopens, fcloses, exit_code, output>>

(* fclose (fp) *)
CloseLog ==
  /\ pc = "fclose"
  /\ fp' = "closed"
  /\ fcloses' = fcloses + 1
  /\ pc' = "enough"
  /\ UNCHANGED <<inputVars, confVars, recVars, line, fpos, fopens, exit_code, output>>

(* the test that enough lines were read *)
NotEnoughData(n) == n <= 2

CheckEnoughData ==
  /\ pc = "enough"
  /\ IF NotEnoughData(line)
     THEN Exit(usage("Unable to process MRTG log file"))
     ELSE pc' = "expire" /\ UNCHANGED <<exit_code, output>>
  /\ UNCHANGED <<inputVars, confVars, recVars, fileVars>>

(* time (&current_time) and the test of the age of the record; when the    *)
(* test overflows a signed type its outcome is undefined                   *)
CheckExpired ==
  /\ pc = "expire"
  /\ \/ /\ ( DataExpired(expire_minutes, clock, timestamp)
              \/ ExpiryUndefined(expire_minutes, clock, timestamp) )
        /\ Exit(terminate(STATE_WARNING, ExpiredText(clock, timestamp)))
     \/ /\ ( ~DataExpired(expire_minutes, clock, timestamp)
              \/ ExpiryUndefined(expire_minutes, clock, timestamp) )
        /\ pc' = "rates"
        /\ UNCHANGED <<exit_code, output>>
  /\ UNCHANGED <<inputVars, confVars, recVars, fileVars>>

(* the choice of the rates, their units, the threshold tests, the line     *)
(* printed and the value main returns                                      *)
CheckRates ==
  /\ pc = "rates"
  /\ LET r == SelectRates(use_average, Rec)
         result == RateResult(Conf, r.incoming_rate, r.outgoing_rate)
     IN  Exit(ExitRun(result,
                      ResultText(result, use_average, r.incoming_rate, r.outgoing_rate)))
  /\ UNCHANGED <<inputVars, confVars, recVars, fileVars>>

Next ==
  \/ ProcessArguments
  \/ OpenLog
  \/ ReadLine
  \/ CloseLog
  \/ CheckEnoughData
  \/ CheckExpired
  \/ CheckRates

Spec == Init /\ [][Next]_vars

TypeOK ==
  /\ pc \in {"main", "fopen", "fgets", "fclose", "enough", "expire", "rates",
             "exited", "crashed"}
  /\ fp \in {"unset", "open", "closed"}
  /\ exit_code \in {STATE_OK, STATE_WARNING, STATE_CRITICAL, STATE_UNKNOWN}
  /\ line \in 0..(MaxLines + 1)
  /\ fpos \in 0..Len(FileContent(log))

(* ---------------------------------------------------------------------- *)
(* Properties                                                              *)
(* ---------------------------------------------------------------------- *)
(* the run ended at or after the age test: the file was read and closed    *)
(* and more than two lines were counted                                    *)
ReachedAgeTest == pc = "exited" /\ fp = "closed" /\ line > 2

(* current_time - timestamp as a number, whatever its size *)
ExactAge ==
  IF timestamp.neg THEN Long(FALSE, NumMulAdd(timestamp.mag, 1, clock))
  ELSE IF NumLess(NumOf(clock), timestamp.mag)
  THEN Long(TRUE, NumSub(timestamp.mag, NumOf(clock)))
  ELSE Long(FALSE, NumSub(NumOf(clock), timestamp.mag))

(* expire_minutes > 0 and current_time - timestamp > expire_minutes * 60 *)
Stale ==
  /\ expire_minutes > 0
  /\ ~ExactAge.neg
  /\ NumLess(NumMulAdd(NumOf(expire_minutes), 60, 0), ExactAge.mag)

(* the run ended in the rate checks, not in the age test *)
ReachedRateChecks == ReachedAgeTest /\ output # ExpiredText(clock, timestamp)

ChosenIncoming ==
  IF use_average THEN average_incoming_rate ELSE maximum_incoming_rate

ChosenOutgoing ==
  IF use_average THEN average_outgoing_rate ELSE maximum_outgoing_rate

(* C2: a run that reaches the rate checks exits CRITICAL iff a raw rate is *)
(* strictly above its critical threshold, otherwise WARNING iff a raw rate *)
(* is strictly above its warning threshold, otherwise OK                   *)
C2_StrictThresholds ==
  ReachedRateChecks =>
    LET crit == \/ NumLess(incoming_critical_threshold, ChosenIncoming)
                \/ NumLess(outgoing_critical_threshold, ChosenOutgoing)
        warn == \/ NumLess(incoming_warning_threshold, ChosenIncoming)
                \/ NumLess(outgoing_warning_threshold, ChosenOutgoing)
    IN  /\ exit_code = STATE_CRITICAL <=> crit
        /\ exit_code = STATE_WARNING <=> (~crit /\ warn)
        /\ exit_code = STATE_OK <=> (~crit /\ ~warn)

(* both rates equal to their critical thresholds, above a warning one: WARNING *)
C2_Witness ==
  /\ ReachedRateChecks
  /\ ChosenIncoming = incoming_critical_threshold
  /\ ChosenOutgoing = outgoing_critical_threshold
  /\ NumLess(incoming_warning_threshold, ChosenIncoming)
  /\ NumLess(Zero, incoming_critical_threshold)
  /\ exit_code = STATE_WARNING

(* C3: in a run that reaches the age test, data older than expire_minutes  *)
(* (strictly, and only when expire_minutes > 0) ends the run with WARNING   *)
(* and the age in whole minutes, whatever the rates; otherwise the expired  *)
(* message is never printed                                                *)
C3_StalenessOverrides ==
  /\ (ReachedAgeTest /\ Stale) =>
       /\ exit_code = STATE_WARNING
       /\ output = "MRTG data has expired (" \o NumStr(NumDivMod(ExactAge.mag, 60).q)
                     \o " minutes old)"
  /\ (pc = "exited" /\ ~Stale) => output # ExpiredText(clock, timestamp)

(* C7: the rates compared and printed are the average pair with the label  *)
(* "Ave" in average mode and the maximum pair with the label "Max" in      *)
(* maximum mode                                                            *)
C7_RateSelection ==
  ReachedRateChecks =>
    LET label == IF use_average THEN "Ave" ELSE "Max"
        text == label \o ". In = " \o FormatTenths(adjusted_rate(ChosenIncoming)) \o " "
                  \o speed_rating(ChosenIncoming) \o ", " \o label \o ". Out = "
                  \o FormatTenths(adjusted_rate(ChosenOutgoing)) \o " "
                  \o speed_rating(ChosenOutgoing)
    IN  /\ exit_code = RateResult(Conf, ChosenIncoming, ChosenOutgoing)
        /\ output = IF exit_code = STATE_OK THEN "Traffic ok - " \o text ELSE text

(* maximum mode is CRITICAL on a record that average mode would find OK *)
C7_Witness ==
  /\ ReachedRateChecks
  /\ use_average = FALSE
  /\ exit_code = STATE_CRITICAL
  /\ RateResult(Conf, average_incoming_rate, average_outgoing_rate) = STATE_OK
  /\ output = "Max. In = 700.0 B/s, Max. Out = 800.0 B/s"

(* before a second buffer is read the record is untouched; from then on    *)
(* each field whose token the second line of the file holds is that        *)
(* token's value                                                           *)
C10_RecordFromSecondLine ==
  /\ line < 2 => Rec = Garbage(Zero)
  /\ line >= 2 => (Len(log) >= 2 /\ Rec = ParseRecord(log[2], Rec))

(* C10: the record is parsed at most once and only from the second line:   *)
(* the first line is never parsed, and no line after the second changes    *)
(* the timestamp or the rates                                              *)
C10_SecondLineOnly ==
  /\ []C10_RecordFromSecondLine
  /\ [][line >= 2 => Rec' = Rec]_vars

(* C1: a log file of a header line and exactly one well-formed record is   *)
(* evaluated: with expire_minutes 0, average mode and all thresholds 0 the *)
(* run ends CRITICAL with the rates of the record in its message           *)
C1_TwoLineFileEvaluated ==
  ( /\ pc = "exited"
    /\ argv = FlagForm(LogPath, <<"0">>, AVG, <<"0">>, <<"0">>, <<"0">>, <<"0">>)
    /\ clock = 110
    /\ log = <<HeaderLine, Record1>>
    /\ log_file = LogPath
    /\ expire_minutes = 0
    /\ use_average = TRUE
    /\ incoming_warning_threshold = Zero
    /\ incoming_critical_threshold = Zero
    /\ outgoing_warning_threshold = Zero
    /\ outgoing_critical_threshold = Zero )
  => /\ exit_code = STATE_CRITICAL
     /\ output = "Ave. In = 500.0 B/s, Ave. Out = 600.0 B/s"

(* command lines that give something other than a non-negative number      *)
(* where a number is wanted: -e abc, a positional abc for the minutes,     *)
(* -w abc, -c 5x,7, a positional abc for a threshold, -c -5,-5             *)
NonNumericArgvs ==
  { << <<"-", "F">>, LogPath, <<"-", "e">>, <<"a", "b", "c">> >>,
    << LogPath, <<"a", "b", "c">> >>,
    << <<"-", "F">>, LogPath, <<"-", "w">>, <<"a", "b", "c">> >>,
    << <<"-", "F">>, LogPath, <<"-", "c">>, <<"5", "x", ",", "7">> >>,
    << LogPath, <<"5">>, AVG, <<"a", "b", "c">>, <<"5", "0", "0">>, <<"6", "0", "0">>,
       <<"7", "0", "0">> >>,
    << <<"-", "F">>, LogPath, <<"-", "e">>, <<"0">>, <<"-", "c">>,
       <<"-", "5", ",", "-", "5">> >> }

(* what an atoi outside the range of int yields in this build *)
Libc == [libc |-> TRUE, value |-> 0]

(* the options and the positional tokens name no log file *)
NoLogFileResolved ==
  /\ ~process_arguments(argv, Libc).exited
  /\ process_arguments(argv, Libc).conf.log_file = NULL

(* C4: when no log file is resolved, or a numeric argument is not a        *)
(* number, argument processing ends the run with the usage error and the   *)
(* log file is never opened                                                *)
C4_BadArgumentsRejected ==
  (pc # "main" /\ (NoLogFileResolved \/ argv \in NonNumericArgvs)) =>
    /\ pc = "exited"
    /\ exit_code = STATE_UNKNOWN
    /\ output = "Invalid command arguments supplied"
    /\ fopens = 0

(* a token of the record that is a number: digits, then at most the newline *)
IsNumberToken(tok) ==
  LET n == IF tok # <<>> /\ tok[Len(tok)] = "\n" THEN Len(tok) - 1 ELSE Len(tok)
  IN  n >= 1 /\ \A i \in 1..n : IsDigit(tok[i])

(* a line that lacks one of the five fields or holds one that is no number *)
Malformed(l) ==
  LET tok == Strtok(l)
  IN  Len(tok) < 5 \/ \E k \in 1..5 : ~IsNumberToken(tok[k])

(* C5: when the second line lacks a field or holds a non-numeric one, the  *)
(* run ends UNKNOWN, never OK, WARNING or CRITICAL                         *)
C5_MalformedRecordRejected ==
  ( /\ pc \in {"exited", "crashed"}
    /\ fopens = 1
    /\ Len(log) >= 2
    /\ Malformed(log[2]) )
  => (pc = "exited" /\ exit_code = STATE_UNKNOWN)

(* the places <<token, character>> at which getopt finds an option when it *)
(* scans the whole command line a from the character k of token i on       *)
RECURSIVE OptionPlaces(_, _, _)
OptionPlaces(a, i, k) ==
  IF i > Len(a) \/ (k = 2 /\ a[i] = <<"-", "-">>) THEN {}
  ELSE IF k = 2 /\ ~IsOptionToken(a[i]) THEN OptionPlaces(a, i + 1, 2)
  ELSE {<<i, k>>} \cup OptionPlaces(a, GetoptLong(a, i, k).next,
                                    GetoptLong(a, i, k).nextchar)

(* the place p stands before the place q on the command line *)
PlaceBefore(p, q) == p[1] < q[1] \/ (p[1] = q[1] /\ p[2] < q[2])

(* help or version stands among the options *)
HelpOrVersionGiven ==
  LET a == RewriteOldOptions(argv)
  IN  \E p \in OptionPlaces(a, 1, 2) : GetoptLong(a, p[1], p[2]).c \in {"h", "V"}

(* an invalid option stands before the first help or version option *)
InvalidOptionFirst ==
  LET a == RewriteOldOptions(argv)
      opts == OptionPlaces(a, 1, 2)
  IN  \E p \in opts :
        /\ GetoptLong(a, p[1], p[2]).c = "?"
        /\ \A q \in opts :
             GetoptLong(a, q[1], q[2]).c \in {"h", "V"} => PlaceBefore(p, q)

(* C6 as stated: whenever help or version stands among the options the run *)
(* ends OK inside argument processing and the log file is never opened     *)
C6_HelpAlwaysExitsOK ==
  (pc # "main" /\ HelpOrVersionGiven) =>
    /\ pc = "exited"
    /\ exit_code = STATE_OK
    /\ output \in {HelpText, RevisionText}
    /\ fopens = 0
    /\ fp = "unset"

(* C6 amended: when help or version stands among the options and no        *)
(* invalid option stands before it, the run ends OK inside argument        *)
(* processing with the informational text; when an invalid option stands   *)
(* before it, the run ends there with the usage error; either way the log  *)
(* file is never opened                                                    *)
C6_HelpExitsUnlessInvalidFirst ==
  (pc # "main" /\ HelpOrVersionGiven) =>
    /\ pc = "exited"
    /\ fopens = 0
    /\ fp = "unset"
    /\ fpos = 0
    /\ IF InvalidOptionFirst
       THEN exit_code = STATE_UNKNOWN /\ output = "Invalid argument"
       ELSE exit_code = STATE_OK /\ output \in {HelpText, RevisionText}

(* help after a valid option and its argument *)
C6_Witness ==
  /\ argv = << <<"-", "F">>, LogPath, <<"-", "h">> >>
  /\ pc = "exited"
  /\ exit_code = STATE_OK
  /\ output = HelpText
  /\ fopens = 0

(* the configuration the options alone produce *)
RECURSIVE OptionConf(_, _, _, _, _)
OptionConf(a, i, k, conf, ub) ==
  IF i > Len(a) \/ (k = 2 /\ a[i] = <<"-", "-">>) THEN conf
  ELSE IF k = 2 /\ ~IsOptionToken(a[i]) THEN OptionConf(a, i + 1, 2, conf, ub)
  ELSE LET g == GetoptLong(a, i, k)
       IN  OptionConf(a, g.next, g.nextchar, ApplyOption(conf, g.c, g.optarg, ub), ub)

(* the options of a that assign their field: -w and -c only when both      *)
(* numbers of the pair are read                                            *)
RECURSIVE OptionsGiven(_, _, _)
OptionsGiven(a, i, k) ==
  IF i > Len(a) \/ (k = 2 /\ a[i] = <<"-", "-">>) THEN {}
  ELSE IF k = 2 /\ ~IsOptionToken(a[i]) THEN OptionsGiven(a, i + 1, 2)
  ELSE LET g == GetoptLong(a, i, k)
           sets == IF g.c \in {"w", "c"}
                   THEN LET p == SscanfPair(g.optarg, <<>>, <<>>)
                        IN  p[1] # <<>> /\ p[2] # <<>>
                   ELSE TRUE
       IN  (IF sets THEN {g.c} ELSE {}) \cup OptionsGiven(a, g.next, g.nextchar)

(* seven positional tokens, no option, numbers where numbers are wanted *)
IsLegacyForm(a) ==
  /\ Len(a) = 7
  /\ \A i \in 1..7 : ~IsOptionToken(a[i])
  /\ a[3] \in {AVG, MAX}
  /\ \A i \in {2, 4, 5, 6, 7} : IsNumberToken(a[i])

(* the legacy form yields the configuration of the flag form *)
LegacyEqualsFlagForm ==
  (pc # "main" /\ IsLegacyForm(argv)) =>
    \E ub \in AtoiUndefined :
      Conf = process_arguments(FlagForm(argv[1], argv[2], argv[3], argv[4], argv[5],
                                        argv[6], argv[7]), ub).conf

(* a field an option has set keeps the value the option gave it *)
FlagNotOverwritten ==
  (pc # "main" /\ ~process_arguments(argv, Libc).exited
     /\ process_arguments(argv, Libc).ok) =>
    \E ub \in AtoiUndefined :
      LET a == RewriteOldOptions(argv)
          given == OptionsGiven(a, 1, 2)
          oc == OptionConf(a, 1, 2, InitialConf, ub)
      IN  /\ "F" \in given => log_file = oc.log_file
          /\ "e" \in given => expire_minutes = oc.expire_minutes
          /\ "a" \in given => use_average = oc.use_average
          /\ "w" \in given =>
               /\ incoming_warning_threshold = oc.incoming_warning_threshold
               /\ outgoing_warning_threshold = oc.outgoing_warning_threshold
          /\ "c" \in given =>
               /\ incoming_critical_threshold = oc.incoming_critical_threshold
               /\ outgoing_critical_threshold = oc.outgoing_critical_threshold

(* C8: the seven positional tokens produce the configuration of the flag   *)
(* form, and a field set by a flag is not overwritten by a positional token *)
C8_LegacyIsFallback == LegacyEqualsFlagForm /\ FlagNotOverwritten

(* C9: a file that was opened is closed exactly once before the process    *)
(* ends, on every path, and before the age test and the rate checks; no    *)
(* handle is closed that was never opened                                  *)
C9_ClosedExactlyOnce ==
  /\ fopens <= 1
  /\ fcloses <= fopens
  /\ pc \in {"exited", "crashed"} => fcloses = fopens
  /\ pc \in {"enough", "expire", "rates"} => (fp = "closed" /\ fcloses = 1)
  /\ fp = "open" <=> (fopens = 1 /\ fcloses = 0)

====
